---- MODULE Spec2Model ----
(***************************************************************************)
(* A model of LoRAW (src/loraw/network.py, src/loraw/modules.py): the      *)
(* graph scanner scan_model, the adapter modules and their two injection   *)
(* strategies, the adapter network, the wrapper's lifecycle and the        *)
(* configuration entry point.                                              *)
(*                                                                         *)
(* Representation.  A host module is identified by its path from the root  *)
(* of the host graph: the sequence of child names leading to it.  A dotted *)
(* module name ("sub.fc") is the sequence of its segments; the empty name  *)
(* "" of the root is the empty sequence.  str.split(".") is SplitDot: the  *)
(* empty name splits into the one segment "".  A qualified id ("a/sub/fc") *)
(* is the sequence of its "/"-separated segments.  A module reference is   *)
(* <<"host", path>> for a module of the host graph and <<"lora", id>> for  *)
(* the adapter built for the target of that qualified id.  Python's None   *)
(* is the empty sequence and a given value v is <<v>>.                     *)
(***************************************************************************)
EXTENDS Naturals, Sequences, FiniteSets, TLC

VARIABLES
    modType,        \* host module -> its class name (__class__.__name__)
    childTable,     \* host module -> its _modules table: Seq of <<name, ref>>
    forward,        \* host module -> the callable its forward attribute holds
    requires_grad,  \* parameter <<module, name>> -> its requires_grad flag
    weight,         \* adapter parameter <<adapter, name>> -> its value
    built,          \* whether the LoRAWWrapper has been constructed
    wrapper,        \* the fields of the LoRAWWrapper
    net,            \* the fields of its LoRAWNetwork
    trainer,        \* the external training wrapper
    optimizer,      \* the optimizer configure_optimizers last built, or None
    last,           \* the last call made: [op, outcome, arg]
    applied,        \* history: how often each injection strategy was applied
    scanCall        \* a direct call of scan_model: its arguments and result

hostVars == <<modType, childTable, forward, requires_grad>>
wrapperVars == <<weight, built, wrapper, net, trainer, optimizer, last, applied>>
vars == <<hostVars, wrapperVars, scanCall>>

(***************************************************************************)
(* The values the model draws from.                                        *)
(***************************************************************************)
Names == {"a", "b"}
ContainerTypes == {"Attention", "Sequential"}
LeafTypes == {"Linear", "Conv1d", "LayerNorm"}
TargetBlockChoices == {{"Attention"}, {"Attention", "Sequential"}}
TokenFilterChoices == {<<>>, <<{"a"}>>, <<{"b"}>>}
WhitelistChoices == {<<>>, <<{"a"}>>}

None == <<>>
Some(v) == <<v>>

Root == <<"host", <<>>>>

\* network.py 11-13: the names of the targetable module classes.
TargetableModules == {"Linear", "Conv1d"}

(***************************************************************************)
(* Host graphs: trees of a bounded number of modules, each child table in   *)
(* insertion order.  A host graph is [type, kids]: path -> class name and  *)
(* path -> the ordered names of its children.                              *)
(***************************************************************************)
RootOnly(ty) == [type |-> (<<>> :> ty), kids |-> (<<>> :> <<>>)]

AddLeaf(t, p, n, ty) ==
    LET q == Append(p, n)
    IN  [type |-> (q :> ty) @@ t.type,
         kids |-> (q :> <<>>) @@ [r \in DOMAIN t.kids |->
                     IF r = p THEN Append(t.kids[r], n) ELSE t.kids[r]]]

HasKid(t, p, n) == \E i \in 1..Len(t.kids[p]) : t.kids[p][i] = n

\* Every way of registering one more child module in a container of t.
Extend(t) ==
    UNION { UNION { { AddLeaf(t, p, n, ty) : ty \in ContainerTypes \cup LeafTypes } :
                    n \in { m \in Names : ~HasKid(t, p, m) } } :
            p \in { q \in DOMAIN t.type : t.type[q] \in ContainerTypes } }

RECURSIVE TreesUpTo(_)
TreesUpTo(n) ==
    IF n <= 1 THEN { RootOnly(ty) : ty \in ContainerTypes }
    ELSE LET prev == TreesUpTo(n - 1)
         IN  prev \cup UNION { Extend(t) : t \in prev }

\* The host graphs of at most n modules: every container holds a child.
HostsOf(n) ==
    { t \in TreesUpTo(n) :
        \A p \in DOMAIN t.type : t.type[p] \in ContainerTypes => t.kids[p] # <<>> }

\* The _modules table of every module of host graph t.
TablesOf(t) ==
    [m \in { <<"host", p>> : p \in DOMAIN t.type } |->
        [i \in 1..Len(t.kids[m[2]]) |->
            <<t.kids[m[2]][i], <<"host", Append(m[2], t.kids[m[2]][i])>>>>]]

TypesOf(t) == [m \in { <<"host", p>> : p \in DOMAIN t.type } |-> t.type[m[2]]]

(***************************************************************************)
(* Python dictionaries in insertion order: a sequence of <<key, value>>.   *)
(***************************************************************************)
HasKey(d, k) == \E i \in 1..Len(d) : d[i][1] = k

Get(d, k) == d[CHOOSE i \in 1..Len(d) : d[i][1] = k][2]

\* d[k] = v: an existing key keeps its position, a new key goes last.
Put(d, k, v) ==
    IF HasKey(d, k)
    THEN [i \in 1..Len(d) |-> IF d[i][1] = k THEN <<k, v>> ELSE d[i]]
    ELSE Append(d, <<k, v>>)

Keys(d) == { d[i][1] : i \in 1..Len(d) }

Front(s) == SubSeq(s, 1, Len(s) - 1)

Last(s) == s[Len(s)]

(***************************************************************************)
(* scan_model (network.py 16-43).                                          *)
(***************************************************************************)
\* name.split("."): the empty name splits into the one segment "".
SplitDot(name) == IF name = <<>> THEN <<"">> ELSE name

\* nn.Module.named_modules(): the module itself under the prefix, then its
\* children's subtrees in the order of the _modules table.
RECURSIVE NamedModules(_, _, _)
RECURSIVE NamedChildren(_, _, _, _)
NamedModules(ct, m, prefix) == <<<<prefix, m>>>> \o NamedChildren(ct, m, prefix, 1)

NamedChildren(ct, m, prefix, i) ==
    IF i > Len(ct[m]) THEN <<>>
    ELSE NamedModules(ct, ct[m][i][2], Append(prefix, ct[m][i][1]))
         \o NamedChildren(ct, m, prefix, i + 1)

\* network.py 34-35: for name in names: ancestor_module = ancestor_module._modules[name].
\* A name missing from a table raises KeyError.
RECURSIVE WalkParent(_, _, _)
WalkParent(ct, cur, names) ==
    IF names = <<>> THEN [ok |-> TRUE, module |-> cur]
    ELSE IF ~HasKey(ct[cur], Head(names)) THEN [ok |-> FALSE, module |-> cur]
    ELSE WalkParent(ct, Get(ct[cur], Head(names)), Tail(names))

\* An id built from the ancestor's name and the descendant's own name only.
QualifiedIdLeafOnly(ancestor_name, decendant_name) ==
    SplitDot(ancestor_name) \o <<Last(SplitDot(decendant_name))>>

\* network.py 37: f"{ancestor_name}.{decendant_name}".replace(".", "/")
QualifiedId(ancestor_name, decendant_name) ==
    SplitDot(ancestor_name) \o SplitDot(decendant_name)

\* network.py 26-30: the test an ancestor passes to be scanned.
IsTargetBlock(ty, ancestor_name, ancestor_module, target_blocks, whitelist, blacklist) ==
    LET ancestor_set == { SplitDot(ancestor_name)[i] :
                            i \in 1..Len(SplitDot(ancestor_name)) }
    IN  /\ ty[ancestor_module] \in target_blocks
        /\ (whitelist = None \/ ancestor_set \cap whitelist[1] # {})
        /\ (blacklist = None \/ ancestor_set \cap blacklist[1] = {})

\* network.py 38-41: module_map[id] = {...}.  The scan state acc holds the
\* module_map and, as a history of the run, every entry the assignment replaced.
Insert(acc, id, entry) ==
    [module_map |-> Put(acc.module_map, id, entry),
     replaced |-> IF HasKey(acc.module_map, id)
                  THEN Append(acc.replaced,
                              [id |-> id, old |-> Get(acc.module_map, id), new |-> entry])
                  ELSE acc.replaced]

Raised(acc, error) ==
    [status |-> error, module_map |-> acc.module_map, replaced |-> acc.replaced]

\* network.py 31-41: the inner loop from the i-th descendant on.  The variable
\* ancestor_module is the one the walk of line 35 assigns: it keeps its value
\* from one descendant to the next.
RECURSIVE ScanDecendants(_, _, _, _, _, _, _)
ScanDecendants(ct, ty, ancestor_name, decendants, i, ancestor_module, acc) ==
    IF i > Len(decendants)
    THEN Raised(acc, "ok")
    ELSE LET decendant_name == decendants[i][1]
             decendant_module == decendants[i][2]
         IN  IF ty[decendant_module] \in TargetableModules
             THEN LET walk == WalkParent(ct, ancestor_module,
                                         Front(SplitDot(decendant_name)))
                      id == QualifiedId(ancestor_name, decendant_name)
                  IN  IF ~walk.ok
                      THEN Raised(acc, "KeyError")
                      ELSE ScanDecendants(ct, ty, ancestor_name, decendants, i + 1,
                               walk.module,
                               Insert(acc, id, [module |-> decendant_module,
                                                parent |-> walk.module]))
             ELSE ScanDecendants(ct, ty, ancestor_name, decendants, i + 1,
                                 ancestor_module, acc)

\* network.py 24-41: the outer loop from the i-th module of the model on.
RECURSIVE ScanAncestors(_, _, _, _, _, _, _, _)
ScanAncestors(ct, ty, ancestors, i, target_blocks, whitelist, blacklist, acc) ==
    IF i > Len(ancestors)
    THEN Raised(acc, "ok")
    ELSE LET ancestor_name == ancestors[i][1]
             ancestor_module == ancestors[i][2]
         IN  IF IsTargetBlock(ty, ancestor_name, ancestor_module,
                              target_blocks, whitelist, blacklist)
             THEN LET r == ScanDecendants(ct, ty, ancestor_name,
                               NamedModules(ct, ancestor_module, <<>>), 1,
                               ancestor_module, acc)
                  IN  IF r.status # "ok" THEN r
                      ELSE ScanAncestors(ct, ty, ancestors, i + 1, target_blocks,
                               whitelist, blacklist,
                               [module_map |-> r.module_map, replaced |-> r.replaced])
             ELSE ScanAncestors(ct, ty, ancestors, i + 1, target_blocks,
                                whitelist, blacklist, acc)

\* scan_model(model, target_blocks, whitelist, blacklist) on the graph (ct, ty):
\* [status, module_map, replaced], status "ok" for a normal return.
scan_model(ct, ty, model, target_blocks, whitelist, blacklist) ==
    ScanAncestors(ct, ty, NamedModules(ct, model, <<>>), 1,
                  target_blocks, whitelist, blacklist,
                  [module_map |-> <<>>, replaced |-> <<>>])

(***************************************************************************)
(* The state before a wrapper exists.                                      *)
(***************************************************************************)
\* The parameters a module holds itself: a leaf of the host graph holds its
\* weight, an adapter its two projections (modules.py 80-81, 112-115).
OwnParameters(ty, m) ==
    IF m[1] = "lora" THEN { <<m, "lora_down">>, <<m, "lora_up">> }
    ELSE IF ty[m] \in LeafTypes THEN { <<m, "weight">> }
    ELSE {}

NoCall == [op |-> "none", outcome |-> "ok", arg |-> None]

\* The host graph t as the external code built it: every module's forward is
\* its class's, every parameter trainable.
InitHost(t) ==
    /\ modType = TypesOf(t)
    /\ childTable = TablesOf(t)
    /\ forward = [m \in DOMAIN TypesOf(t) |-> m]
    /\ requires_grad =
         [p \in UNION { OwnParameters(TypesOf(t), m) : m \in DOMAIN TypesOf(t) } |-> TRUE]

InitWrapper ==
    /\ weight = <<>>
    /\ built = FALSE
    /\ wrapper = [model_type |-> None, is_active |-> FALSE, is_trainable |-> FALSE,
                  target_map |-> <<>>, residual_modules |-> <<>>, lr |-> None]
    /\ net = [active |-> FALSE, multiplier |-> 1, lora_dim |-> 16, alpha |-> Some(1),
              dropout |-> None, module_dropout |-> None, lora_modules |-> <<>>,
              device |-> "cpu"]
    /\ trainer = [configure_optimizers |-> "trainer", lr |-> 3,
                  device |-> "cuda", ema_trimmed |-> FALSE]
    /\ optimizer = None
    /\ last = NoCall
    /\ applied = [inject |-> 0, inject_forward |-> 0, merge |-> 0]

(***************************************************************************)
(* LoRAWModule (modules.py).                                               *)
(***************************************************************************)
\* modules.py 7-29: the adapter built for original_module.  original_forward
\* is the callable original_module.forward held when the adapter was built;
\* scale = alpha / lora_dim is kept as the pair <<alpha, lora_dim>>.
LoRAWModule(lora_name, original_module, multiplier, lora_dim, alpha, dropout, module_dropout) ==
    [lora_name |-> lora_name,
     lora_dim |-> lora_dim,
     multiplier |-> multiplier,
     original_module |-> Some(original_module),
     original_forward |-> forward[original_module],
     dropout |-> dropout,
     module_dropout |-> module_dropout,
     scale |-> <<IF alpha = None \/ alpha = Some(0) THEN lora_dim ELSE alpha[1], lora_dim>>]

\* modules.py 83-84, 117-118: lora_down is drawn by kaiming_uniform_ (some
\* nonzero value, 1 here), lora_up is zeros_.
InitialWeight(name) == IF name = "lora_up" THEN 0 ELSE 1

\* modules.py 50-51: inject(parent_module), on the tables ct.
inject(ct, adapter, parent_module) ==
    [ct EXCEPT ![parent_module] =
        Put(@, Last(adapter.lora_name), <<"lora", adapter.lora_name>>)]

\* inject_forward that keeps its reference to the original module.
InjectForwardKeepsOriginal(st, name) ==
    LET adapter == Get(st.lora_modules, name)
    IN  [forward |-> [st.forward EXCEPT ![adapter.original_module[1]] = <<"lora", name>>],
         lora_modules |-> st.lora_modules,
         status |-> "ok"]

\* modules.py 53-55: inject_forward(), on the state st = [forward, lora_modules,
\* status]: reading self.original_module after it was deleted raises
\* AttributeError.
inject_forward(st, name) ==
    LET adapter == Get(st.lora_modules, name)
    IN  IF adapter.original_module = None
        THEN [st EXCEPT !.status = "AttributeError"]
        ELSE [forward |-> [st.forward EXCEPT ![adapter.original_module[1]] =
                                <<"lora", name>>],
              lora_modules |-> Put(st.lora_modules, name,
                                   [adapter EXCEPT !.original_module = None]),
              status |-> "ok"]

\* What a call of the callable c computes: the class forward it ends in and
\* the adapters whose residual it adds with a nonzero up-projection
\* (modules.py 31-48: with module dropout the adapter returns the original
\* output, otherwise the original output plus up(down(x)) * scale * multiplier).
RECURSIVE Computes(_, _, _)
Computes(mods, w, c) ==
    IF c[1] = "host" THEN [base |-> c, delta |-> {}]
    ELSE LET inner == Computes(mods, w, Get(mods, c[2]).original_forward)
         IN  [base |-> inner.base,
              delta |-> inner.delta \cup
                        (IF w[<<c, "lora_up">>] = 0 THEN {} ELSE {c[2]})]

\* What calling the module m computes: an adapter runs its forward, a host
\* module the callable its forward attribute holds.
CallModule(fw, mods, w, m) ==
    Computes(mods, w, IF m[1] = "lora" THEN m ELSE fw[m])

(***************************************************************************)
(* LoRAWNetwork (network.py 46-94).                                        *)
(***************************************************************************)
\* network.py 63-77: one adapter for each entry of target_map, in its order.
RECURSIVE BuildLoraModules(_, _, _, _, _, _, _, _)
BuildLoraModules(target_map, i, acc, multiplier, lora_dim, alpha, dropout, module_dropout) ==
    IF i > Len(target_map) THEN acc
    ELSE BuildLoraModules(target_map, i + 1,
            Put(acc, target_map[i][1],
                LoRAWModule(target_map[i][1], target_map[i][2].module, multiplier,
                            lora_dim, alpha, dropout, module_dropout)),
            multiplier, lora_dim, alpha, dropout, module_dropout)

\* network.py 80-81: module.inject(target_map[name]["parent"]) for each adapter.
RECURSIVE InjectAll(_, _, _, _)
InjectAll(ct, lora_modules, target_map, i) ==
    IF i > Len(lora_modules) THEN ct
    ELSE InjectAll(inject(ct, lora_modules[i][2],
                          Get(target_map, lora_modules[i][1]).parent),
                   lora_modules, target_map, i + 1)

\* network.py 86-87: module.inject_forward() for each adapter; the first one
\* that raises ends the loop.
RECURSIVE InjectForwardAll(_, _, _)
InjectForwardAll(st, names, i) ==
    IF i > Len(names) \/ st.status # "ok" THEN st
    ELSE InjectForwardAll(inject_forward(st, names[i]), names, i + 1)

KeySeq(d) == [i \in 1..Len(d) |-> d[i][1]]

\* The direct calls of LoRAWNetwork.activate the model makes at most.
MaxNetCalls == 1

Count(n, lora_modules) == IF lora_modules = <<>> THEN n ELSE n + 1

\* LoRAWNetwork.activate(target_map), called on the wrapper's network with
\* the wrapper's target map (network.py 79-83).
NetActivate ==
    /\ built
    /\ applied.inject < MaxNetCalls
    /\ childTable' = InjectAll(childTable, net.lora_modules, wrapper.target_map, 1)
    /\ net' = [net EXCEPT !.active = TRUE]
    /\ applied' = [applied EXCEPT !.inject = Count(@, net.lora_modules)]
    /\ last' = [op |-> "net.activate", outcome |-> "ok", arg |-> None]
    /\ UNCHANGED <<modType, forward, requires_grad, weight, built, wrapper, trainer,
                   optimizer, scanCall>>

\* LoRAWNetwork.activate_forward() (network.py 85-89).
NetActivateForward ==
    /\ built
    /\ LET st == InjectForwardAll([forward |-> forward,
                                   lora_modules |-> net.lora_modules,
                                   status |-> "ok"],
                                  KeySeq(net.lora_modules), 1)
       IN  /\ forward' = st.forward
           /\ net' = [net EXCEPT !.lora_modules = st.lora_modules,
                                 !.active = IF st.status = "ok" THEN TRUE ELSE @]
           /\ applied' = IF st.status = "ok"
                         THEN [applied EXCEPT
                                 !.inject_forward = Count(@, net.lora_modules)]
                         ELSE applied
           /\ last' = [op |-> "net.activate_forward", outcome |-> st.status,
                       arg |-> None]
    /\ UNCHANGED <<modType, childTable, requires_grad, weight, built, wrapper,
                   trainer, optimizer, scanCall>>

(***************************************************************************)
(* LoRAWWrapper (network.py 97-197).                                       *)
(***************************************************************************)
\* The child modules of m: the entries of a host module's _modules table; for
\* an adapter original_module, while it holds it, and its two projections,
\* whose parameters OwnParameters counts as the adapter's.
ChildModules(ct, mods, m) ==
    IF m[1] = "lora"
    THEN LET adapter == Get(mods, m[2])
         IN  IF adapter.original_module = None THEN {}
             ELSE {adapter.original_module[1]}
    ELSE { ct[m][i][2] : i \in 1..Len(ct[m]) }

\* nn.Module.modules(): the modules of seen and everything under them, each
\* once (the traversal keeps a memo, so a cycle ends it).
RECURSIVE ModulesUnder(_, _, _)
ModulesUnder(ct, mods, seen) ==
    LET more == seen \cup UNION { ChildModules(ct, mods, m) : m \in seen }
    IN  IF more = seen THEN seen ELSE ModulesUnder(ct, mods, more)

\* nn.Module.parameters() of the module m.
Parameters(ct, ty, mods, m) ==
    UNION { OwnParameters(ty, x) : x \in ModulesUnder(ct, mods, {m}) }

\* network.py 133-137: residual_modules, name -> projection, two per adapter.
RECURSIVE ResidualModules(_, _)
ResidualModules(lora_modules, i) ==
    IF i > Len(lora_modules) THEN <<>>
    ELSE <<<<<<lora_modules[i][1], "lora_down">>,
             <<<<"lora", lora_modules[i][1]>>, "lora_down">>>>,
           <<<<lora_modules[i][1], "lora_up">>,
             <<<<"lora", lora_modules[i][1]>>, "lora_up">>>>>>
         \o ResidualModules(lora_modules, i + 1)

\* residual_modules.parameters()
ResidualParameters(residual_modules) ==
    { residual_modules[i][2] : i \in 1..Len(residual_modules) }

\* LoRAWWrapper.__init__ (network.py 98-137) as the call op with argument
\* arg: the scan, the network, the residual modules.  An exception of the scan
\* leaves no wrapper.
WrapperInit(op, arg, model_type, target_blocks, component_whitelist, multiplier, lora_dim, alpha, dropout, module_dropout) ==
    LET scan == scan_model(childTable, modType, Root, target_blocks,
                           component_whitelist, None)
        lora_modules == BuildLoraModules(scan.module_map, 1, <<>>, multiplier,
                                         lora_dim, alpha, dropout, module_dropout)
        residual_modules == ResidualModules(lora_modules, 1)
    IN  IF scan.status # "ok"
        THEN /\ last' = [op |-> op, outcome |-> scan.status, arg |-> arg]
             /\ UNCHANGED <<hostVars, weight, built, wrapper, net, trainer, optimizer,
                            applied, scanCall>>
        ELSE /\ built' = TRUE
             /\ wrapper' = [model_type |-> model_type, is_active |-> FALSE,
                            is_trainable |-> FALSE, target_map |-> scan.module_map,
                            residual_modules |-> residual_modules, lr |-> None]
             /\ net' = [active |-> FALSE, multiplier |-> multiplier,
                        lora_dim |-> lora_dim, alpha |-> alpha, dropout |-> dropout,
                        module_dropout |-> module_dropout,
                        lora_modules |-> lora_modules, device |-> "cpu"]
             /\ weight' = [p \in ResidualParameters(residual_modules) |->
                              InitialWeight(p[2])]
             /\ requires_grad' = [p \in ResidualParameters(residual_modules) |-> TRUE]
                                    @@ requires_grad
             /\ last' = [op |-> op, outcome |-> "ok", arg |-> arg]
             /\ UNCHANGED <<modType, childTable, forward, trainer, optimizer, applied,
                            scanCall>>

\* LoRAWWrapper(target_model, target_blocks=..., component_whitelist=...) with
\* the defaults of network.py 101-108 for the other arguments.
NewWrapper ==
    /\ ~built
    /\ \E tb \in TargetBlockChoices, wl \in WhitelistChoices :
           WrapperInit("LoRAWWrapper", None, None, tb, wl, 1, 16, Some(1), None, None)

\* activate without the assertion of line 140.
ActivateUnguarded ==
    /\ built
    /\ childTable' = InjectAll(childTable, net.lora_modules, wrapper.target_map, 1)
    /\ net' = [net EXCEPT !.active = TRUE]
    /\ wrapper' = [wrapper EXCEPT !.is_active = TRUE]
    /\ applied' = [applied EXCEPT !.inject = Count(@, net.lora_modules)]
    /\ last' = [op |-> "activate", outcome |-> "ok", arg |-> None]
    /\ UNCHANGED <<modType, forward, requires_grad, weight, built, trainer,
                   optimizer, scanCall>>

\* LoRAWWrapper.activate (network.py 139-142).
Activate ==
    /\ built
    /\ IF wrapper.is_active
       THEN /\ last' = [op |-> "activate", outcome |-> "AssertionError", arg |-> None]
            /\ UNCHANGED <<hostVars, weight, built, wrapper, net, trainer, optimizer,
                           applied, scanCall>>
       ELSE /\ childTable' = InjectAll(childTable, net.lora_modules,
                                       wrapper.target_map, 1)
            /\ net' = [net EXCEPT !.active = TRUE]
            /\ wrapper' = [wrapper EXCEPT !.is_active = TRUE]
            /\ applied' = [applied EXCEPT !.inject = Count(@, net.lora_modules)]
            /\ last' = [op |-> "activate", outcome |-> "ok", arg |-> None]
            /\ UNCHANGED <<modType, forward, requires_grad, weight, built, trainer,
                           optimizer, scanCall>>

\* LoRAWWrapper.configure_optimizers (network.py 144-145): Adam over the
\* residual parameters with self.lr, an attribute only prepare_for_training sets.
ConfigureOptimizers ==
    /\ built
    /\ IF wrapper.lr = None
       THEN /\ last' = [op |-> "configure_optimizers", outcome |-> "AttributeError",
                        arg |-> None]
            /\ UNCHANGED optimizer
       ELSE /\ optimizer' = Some([params |-> ResidualParameters(wrapper.residual_modules),
                                  lr |-> wrapper.lr[1]])
            /\ last' = [op |-> "configure_optimizers", outcome |-> "ok", arg |-> None]
    /\ UNCHANGED <<hostVars, weight, built, wrapper, net, trainer, applied, scanCall>>

\* The model types with an EMA copy to trim (attributes.py).
EMA_MODEL == {"diffusion_cond"}

LrChoices == {None, Some(5)}

\* network.py 150-172: prepare_for_training past its assertion.
Prepared(lr) ==
    LET frozen == Parameters(childTable, modType, net.lora_modules, Root)
        unfrozen == ResidualParameters(wrapper.residual_modules)
    IN  /\ requires_grad' =
               [p \in DOMAIN requires_grad |->
                   IF p \in unfrozen THEN TRUE
                   ELSE IF p \in frozen THEN FALSE
                   ELSE requires_grad[p]]
        /\ net' = [net EXCEPT !.device = trainer.device]
        /\ wrapper' = [wrapper EXCEPT
               !.lr = IF lr = None THEN Some(trainer.lr) ELSE lr,
               !.is_trainable = TRUE]
        /\ trainer' = [trainer EXCEPT
               !.configure_optimizers = "loraw",
               !.ema_trimmed = IF /\ wrapper.model_type # None
                                  /\ wrapper.model_type[1] \in EMA_MODEL
                               THEN TRUE ELSE @]
        /\ last' = [op |-> "prepare_for_training", outcome |-> "ok", arg |-> None]
        /\ UNCHANGED <<modType, childTable, forward, weight, built, optimizer,
                       applied, scanCall>>

\* prepare_for_training without the assertion of line 148.
PrepareUnguarded ==
    /\ built
    /\ \E lr \in LrChoices : Prepared(lr)

\* LoRAWWrapper.prepare_for_training(training_wrapper, lr) (network.py 147-172).
PrepareForTraining ==
    /\ built
    /\ \E lr \in LrChoices :
        IF ~wrapper.is_active
        THEN /\ last' = [op |-> "prepare_for_training", outcome |-> "AssertionError",
                         arg |-> None]
             /\ UNCHANGED <<hostVars, weight, built, wrapper, net, trainer, optimizer,
                            applied, scanCall>>
        ELSE Prepared(lr)

\* The weight files merge_weights may load: at most MaxFileLen entries in the
\* file's order, each [name, value, fits]: a name of the state dict of the
\* residual modules or a foreign one, and whether the tensor's shape fits.
MaxFileLen == 2
MultiplierChoices == {1, 2}
ForeignName == <<<<"x">>, "lora_up">>

FileEntries(residual_modules) ==
    { [name |-> n, value |-> 1, fits |-> f] :
        n \in Keys(residual_modules) \cup {ForeignName}, f \in BOOLEAN }

RECURSIVE FilesUpTo(_, _)
FilesUpTo(entries, n) ==
    IF n = 0 THEN {<<>>}
    ELSE LET shorter == FilesUpTo(entries, n - 1)
         IN  shorter \cup
             { Append(f, e) : f \in { g \in shorter : Len(g) = n - 1 },
                              e \in entries }

WeightFiles(residual_modules) ==
    { f \in FilesUpTo(FileEntries(residual_modules), MaxFileLen) :
        \A i, j \in 1..Len(f) : f[i].name = f[j].name => i = j }

\* A merge that passes over an entry it cannot merge and goes on.
RECURSIVE MergeLoopSkipsBad(_, _, _, _, _)
MergeLoopSkipsBad(st, residual_modules, weights, multiplier, i) ==
    IF i > Len(weights) THEN st
    ELSE IF ~HasKey(residual_modules, weights[i].name)
    THEN MergeLoopSkipsBad([st EXCEPT !.status = "KeyError"], residual_modules,
                           weights, multiplier, i + 1)
    ELSE IF ~weights[i].fits
    THEN MergeLoopSkipsBad([st EXCEPT !.status = "RuntimeError"], residual_modules,
                           weights, multiplier, i + 1)
    ELSE LET param == Get(residual_modules, weights[i].name)
         IN  MergeLoopSkipsBad(
                 [st EXCEPT !.weight[param] = @ + weights[i].value * multiplier],
                 residual_modules, weights, multiplier, i + 1)

\* network.py 184-186: the loop of merge_weights from the i-th entry on, on
\* st = [weight, status].  A name the state dict lacks raises KeyError, a
\* tensor that does not fit raises RuntimeError, before the copy.
RECURSIVE MergeLoop(_, _, _, _, _)
MergeLoop(st, residual_modules, weights, multiplier, i) ==
    IF i > Len(weights) THEN st
    ELSE IF ~HasKey(residual_modules, weights[i].name)
    THEN [st EXCEPT !.status = "KeyError"]
    ELSE IF ~weights[i].fits
    THEN [st EXCEPT !.status = "RuntimeError"]
    ELSE LET param == Get(residual_modules, weights[i].name)
         IN  MergeLoop([st EXCEPT !.weight[param] = @ + weights[i].value * multiplier],
                       residual_modules, weights, multiplier, i + 1)

\* LoRAWWrapper.merge_weights(path, multiplier) (network.py 182-186), path
\* holding the file weights: the first merge into a wrapper's adapters.
MergeWeights ==
    /\ built
    /\ applied.merge = 0
    /\ \E weights \in WeightFiles(wrapper.residual_modules),
          multiplier \in MultiplierChoices :
          LET st == MergeLoop([weight |-> weight, status |-> "ok"],
                              wrapper.residual_modules, weights, multiplier, 1)
          IN  /\ weight' = st.weight
              /\ last' = [op |-> "merge_weights", outcome |-> st.status,
                          arg |-> [weights |-> weights, multiplier |-> multiplier]]
    /\ applied' = [applied EXCEPT !.merge = @ + 1]
    /\ UNCHANGED <<hostVars, built, wrapper, net, trainer, optimizer, scanCall>>

(***************************************************************************)
(* create_loraw_from_config (network.py 200-238).                          *)
(***************************************************************************)
RequiredOptions == {"target_blocks", "component_whitelist", "multiplier", "rank", "alpha"}
OptionalOptions == {"dropout", "module_dropout", "model_type"}
ConfigKeys == {"loraw"} \cup RequiredOptions \cup OptionalOptions

\* The configurations: no key is absent, or one key, or every optional one;
\* the values are those of the keys that are present.  Dropout rates are in
\* tenths.
AbsentChoices == {{}} \cup { {k} : k \in ConfigKeys } \cup {OptionalOptions}

Configs ==
    { [absent |-> ab, target_blocks |-> {"Attention"}, component_whitelist |-> {"a"},
       multiplier |-> 1, rank |-> 16, alpha |-> 16, dropout |-> d[1],
       module_dropout |-> d[2], model_type |-> "diffusion_cond"] :
         ab \in AbsentChoices, d \in {<<0, 5>>, <<5, 0>>} }

\* loraw_config.get(key, None)
ConfigGet(config, key, value) == IF key \in config.absent THEN None ELSE Some(value)

\* network.py 220-224: if dropout == 0: dropout = None
ZeroIsNone(v) == IF v = Some(0) THEN None ELSE v

CreateFromConfig ==
    /\ ~built
    /\ \E config \in Configs :
        LET op == "create_loraw_from_config"
            fails(error) ==
                /\ last' = [op |-> op, outcome |-> error, arg |-> config]
                /\ UNCHANGED <<hostVars, weight, built, wrapper, net, trainer,
                               optimizer, applied, scanCall>>
        IN  IF "loraw" \in config.absent THEN fails("KeyError")
            ELSE IF "model_type" \in config.absent THEN fails("KeyError")
            ELSE IF \E k \in RequiredOptions : k \in config.absent
            THEN fails("AssertionError")
            ELSE WrapperInit(op, config, Some(config.model_type), config.target_blocks,
                    Some(config.component_whitelist), config.multiplier, config.rank,
                    Some(config.alpha),
                    ZeroIsNone(ConfigGet(config, "dropout", config.dropout)),
                    ZeroIsNone(ConfigGet(config, "module_dropout",
                                         config.module_dropout)))

(***************************************************************************)
(* The wrapper's life on a host graph: construction, directly or from a    *)
(* configuration, then any sequence of calls.                              *)
(***************************************************************************)
LifeNodes == 3

Init ==
    /\ \E t \in HostsOf(LifeNodes) : InitHost(t)
    /\ InitWrapper
    /\ scanCall = [target_blocks |-> {}, whitelist |-> None, blacklist |-> None,
                   res |-> None]

Next ==
    \/ NewWrapper
    \/ CreateFromConfig
    \/ Activate
    \/ NetActivate
    \/ NetActivateForward
    \/ PrepareForTraining
    \/ ConfigureOptimizers

Spec == Init /\ [][Next]_vars

\* The same on the larger host graphs of at most WideNodes modules.
WideNodes == 4

InitWide ==
    /\ \E t \in HostsOf(WideNodes) : InitHost(t)
    /\ InitWrapper
    /\ scanCall = [target_blocks |-> {}, whitelist |-> None, blacklist |-> None,
                   res |-> None]

SpecWide == InitWide /\ [][Next]_vars

\* Merging weight files into a wrapper's adapters.
NextMerge ==
    \/ NewWrapper
    \/ MergeWeights

MergeNodes == 2

InitMerge ==
    /\ \E t \in HostsOf(MergeNodes) : InitHost(t)
    /\ InitWrapper
    /\ scanCall = [target_blocks |-> {}, whitelist |-> None, blacklist |-> None,
                   res |-> None]

SpecMerge == InitMerge /\ [][NextMerge]_vars

(***************************************************************************)
(* The scanner on its own: scan_model called once on a host graph, for     *)
(* every choice of target blocks, whitelist and blacklist.                 *)
(***************************************************************************)
ScanNodes == 4

InitScan ==
    /\ \E t \in HostsOf(ScanNodes) : InitHost(t)
    /\ InitWrapper
    /\ \E tb \in TargetBlockChoices, wl \in TokenFilterChoices, bl \in TokenFilterChoices :
            scanCall = [target_blocks |-> tb, whitelist |-> wl, blacklist |-> bl,
                        res |-> None]

ScanModel ==
    /\ scanCall.res = None
    /\ scanCall' = [scanCall EXCEPT !.res =
            Some(scan_model(childTable, modType, Root, scanCall.target_blocks,
                            scanCall.whitelist, scanCall.blacklist))]
    /\ UNCHANGED <<hostVars, wrapperVars>>

NextScan == ScanModel

SpecScan == InitScan /\ [][NextScan]_vars

\* The same on host graphs one node larger: two sibling containers that each
\* hold a target, where the walk to a parent can miss a child name.
ScanWideNodes == 5

InitScanWide ==
    /\ \E t \in HostsOf(ScanWideNodes) : InitHost(t)
    /\ InitWrapper
    /\ \E tb \in TargetBlockChoices, wl \in TokenFilterChoices, bl \in TokenFilterChoices :
            scanCall = [target_blocks |-> tb, whitelist |-> wl, blacklist |-> bl,
                        res |-> None]

SpecScanWide == InitScanWide /\ [][NextScan]_vars
ScanDone == scanCall.res # None

ScanRes == scanCall.res[1]

IsPrefix(p, q) == Len(p) <= Len(q) /\ SubSeq(q, 1, Len(p)) = p

HostPaths == { m[2] : m \in DOMAIN modType }

\* The ancestor blocks the scan is to search: of a target block type, with a
\* path token in the whitelist and none in the blacklist.
AncestorBlocks ==
    { p \in HostPaths :
        /\ modType[<<"host", p>>] \in scanCall.target_blocks
        /\ (scanCall.whitelist = None
              \/ \E i \in 1..Len(SplitDot(p)) : SplitDot(p)[i] \in scanCall.whitelist[1])
        /\ (scanCall.blacklist = None
              \/ \A i \in 1..Len(SplitDot(p)) : SplitDot(p)[i] \notin scanCall.blacklist[1]) }

\* The targetable descendants under some ancestor block.
TargetDecendants ==
    { q \in HostPaths :
        /\ modType[<<"host", q>>] \in TargetableModules
        /\ \E p \in AncestorBlocks : IsPrefix(p, q) }

\* C1: every entry scan_model returns records as parent the immediate
\* container of the recorded module: the parent's child table maps the last
\* segment of the qualified id to that module.
C1_ParentIsContainer ==
    (ScanDone /\ ScanRes.status = "ok") =>
        \A i \in 1..Len(ScanRes.module_map) :
            LET id == ScanRes.module_map[i][1]
                e == ScanRes.module_map[i][2]
            IN  /\ HasKey(childTable[e.parent], Last(id))
                /\ Get(childTable[e.parent], Last(id)) = e.module

C8_ScanExact ==
    ScanDone =>
        /\ ScanRes.status = "ok"
        /\ { ScanRes.module_map[i][2].module : i \in 1..Len(ScanRes.module_map) }
              = { <<"host", q>> : q \in TargetDecendants }
        /\ Len(ScanRes.module_map) = Cardinality(TargetDecendants)
        /\ \A i \in 1..Len(ScanRes.module_map) :
              modType[ScanRes.module_map[i][2].module] \in TargetableModules

(***************************************************************************)
(* Claims about the wrapper's life.                                        *)
(***************************************************************************)
\* The child the host graph registered under parent m as built: its path is
\* m's path and one more name.
OriginalChildren(m) ==
    { c \in DOMAIN modType : c[2] # <<>> /\ Front(c[2]) = m[2] }

\* C2: after activate() (or the network's activate_forward()) and before any
\* adapter parameter is updated, every child slot of the host graph computes
\* what the module registered there computed: the original module's output
\* with nothing added, and no child is displaced by an adapter.
C2_OutputUnchanged ==
    (applied.inject + applied.inject_forward > 0 /\ applied.merge = 0) =>
        \A m \in DOMAIN modType : \A c \in OriginalChildren(m) :
            /\ HasKey(childTable[m], Last(c[2]))
            /\ CallModule(forward, net.lora_modules, weight,
                          Get(childTable[m], Last(c[2])))
                 = [base |-> c, delta |-> {}]

\* C4: activate() succeeds at most once: the wrapper never leaves the active
\* state, and a call of activate() on an active wrapper fails with the
\* lifecycle error and changes neither the wrapper's flags, nor the network's
\* active flag, nor a child table of the host graph.
C4_ActivateOnce ==
    [][ /\ wrapper.is_active => wrapper'.is_active
        /\ (wrapper.is_active /\ last'.op = "activate") =>
              /\ last'.outcome = "AssertionError"
              /\ UNCHANGED <<wrapper, net, childTable>> ]_vars

C4_Witness ==
    wrapper.is_active /\ last.op = "activate" /\ last.outcome = "AssertionError"

FirstBad(weights, residual_modules) ==
    LET bad == { i \in 1..Len(weights) :
                    ~HasKey(residual_modules, weights[i].name) \/ ~weights[i].fits }
    IN  IF bad = {} THEN Len(weights) + 1
        ELSE CHOOSE i \in bad : \A j \in bad : i <= j

C6_OnlyAdaptersTrainable ==
    (wrapper.is_trainable /\ applied.inject_forward = 0) =>
        /\ \A p \in DOMAIN requires_grad :
              requires_grad[p] <=> p \in ResidualParameters(wrapper.residual_modules)
        /\ optimizer # None =>
              optimizer[1].params = ResidualParameters(wrapper.residual_modules)

\* C7: a trainable wrapper is active, and prepare_for_training() on a wrapper
\* that is not active fails and changes no parameter's trainable flag, no
\* trainer hook and neither lifecycle flag.
C7_TrainableImpliesActive ==
    /\ [](wrapper.is_trainable => wrapper.is_active)
    /\ [][ (~wrapper.is_active /\ last'.op = "prepare_for_training") =>
              /\ last'.outcome = "AssertionError"
              /\ UNCHANGED <<requires_grad, trainer, wrapper>> ]_vars

C7_Witness ==
    /\ built /\ ~wrapper.is_active
    /\ last.op = "prepare_for_training" /\ last.outcome = "AssertionError"

\* C9 (as claimed): over a network's life at most one injection strategy is
\* applied to the host graph, and at most once.
C9_StrategiesExclusive ==
    applied.inject + applied.inject_forward <= 1

\* C9 (amended): call-interception injection is applied at most once over a
\* network's life (a second activate_forward() fails); structural injection
\* is not so limited, and both strategies can be applied to one network.
C9_ForwardAtMostOnce ==
    applied.inject_forward <= 1

C9_Witness ==
    /\ applied.inject_forward = 1
    /\ last.op = "net.activate_forward" /\ last.outcome = "AttributeError"

\* C10: create_loraw_from_config fails exactly when a required option is
\* absent; with the five present it builds a wrapper, whatever optional
\* options are absent, and a dropout or module_dropout of 0 becomes none.
C10_FailsOnlyOnRequired ==
    last.op = "create_loraw_from_config" =>
        LET config == last.arg
            lacking == \/ "loraw" \in config.absent
                       \/ config.absent \cap RequiredOptions # {}
        IN  /\ last.outcome # "ok" <=> lacking
            /\ ~lacking =>
                 /\ built
                 /\ net.dropout = IF "dropout" \in config.absent \/ config.dropout = 0
                                  THEN None ELSE Some(config.dropout)
                 /\ net.module_dropout =
                        IF "module_dropout" \in config.absent \/ config.module_dropout = 0
                        THEN None ELSE Some(config.module_dropout)
====
